---------------------------- MODULE Spec2Model ----------------------------
(***************************************************************************)
(* hu.sh secret sharing service: the HTTP handlers of the server (secret   *)
(* vault, exchange requests, expiry sweeper) and the helpers they call,    *)
(* as a state machine over the two tables of the store.                    *)
(*                                                                         *)
(* Every `await db(...)` of a handler is one atomic store operation and    *)
(* one step of the handler's process; the synchronous code that follows    *)
(* an await runs in the next step of that process, so other handlers, the  *)
(* sweeper and the clock interleave between any two steps.                 *)
(*                                                                         *)
(* Time is in milliseconds since an arbitrary origin (Date.getTime()).     *)
(* An ISO-8601 UTC string and a Date hold the same millisecond count, so   *)
(* both are the integer.  A nullable column or an optional field is a      *)
(* sequence of length 0 (null / undefined) or 1 (the value).               *)
(***************************************************************************)
EXTENDS Integers, Sequences, FiniteSets, TLC

VARIABLES now, secrets, requests, pc, loc, last, owed

vars == <<now, secrets, requests, pc, loc, last, owed>>

(***************************************************************************)
(* Bounds of the model.                                                    *)
(***************************************************************************)
\* the clock runs from 0 to MaxTicks minutes
MaxTicks == 2
\* generateShortId draws from IdSpace identifiers (62^8 in the program)
IdSpace == 2

(***************************************************************************)
(* Program constants.                                                      *)
(***************************************************************************)
SHARE_COUNT == 5
SHARE_THRESHOLD == 5
HASH_SALT == 10
MaxMinutes == 60
MaxHours == 24
MaxDays == 7
MinuteMs == 60 * 1000
HourMs == 60 * 60 * 1000
DayMs == 24 * 60 * 60 * 1000

Null == << >>
Some(v) == <<v>>
IsNull(o) == Len(o) = 0
Val(o) == o[1]

Min(a, b) == IF a < b THEN a ELSE b

(***************************************************************************)
(* Buffer.from(content, "utf-8") and buffer.toString("utf-8").             *)
(* A string is its sequence of UTF-16 code units.                          *)
(***************************************************************************)
REPLACEMENT == 65533

IsHigh(u) == u >= 55296 /\ u <= 56319
IsLow(u) == u >= 56320 /\ u <= 57343

EncodeCodePoint(cp) ==
    IF cp < 128 THEN <<cp>>
    ELSE IF cp < 2048 THEN <<192 + (cp \div 64), 128 + (cp % 64)>>
    ELSE IF cp < 65536
         THEN <<224 + (cp \div 4096), 128 + ((cp \div 64) % 64), 128 + (cp % 64)>>
    ELSE <<240 + (cp \div 262144), 128 + ((cp \div 4096) % 64),
           128 + ((cp \div 64) % 64), 128 + (cp % 64)>>

RECURSIVE Utf8Encode(_)
Utf8Encode(s) ==
    IF Len(s) = 0 THEN << >>
    ELSE IF IsHigh(s[1]) /\ Len(s) >= 2 /\ IsLow(s[2])
         THEN EncodeCodePoint(65536 + (s[1] - 55296) * 1024 + (s[2] - 56320))
              \o Utf8Encode(SubSeq(s, 3, Len(s)))
    ELSE IF IsHigh(s[1]) \/ IsLow(s[1])
         THEN EncodeCodePoint(REPLACEMENT) \o Utf8Encode(Tail(s))
    ELSE EncodeCodePoint(s[1]) \o Utf8Encode(Tail(s))

IsCont(b) == b >= 128 /\ b <= 191

\* number of continuation bytes a lead byte announces, 0 for ASCII, -1 if invalid
Need(b) ==
    IF b < 128 THEN 0
    ELSE IF b >= 194 /\ b <= 223 THEN 1
    ELSE IF b >= 224 /\ b <= 239 THEN 2
    ELSE IF b >= 240 /\ b <= 244 THEN 3
    ELSE 0 - 1

CodeUnits(cp) ==
    IF cp < 65536 THEN <<cp>>
    ELSE <<55296 + ((cp - 65536) \div 1024), 56320 + ((cp - 65536) % 1024)>>

RECURSIVE Utf8Decode(_)
Utf8Decode(b) ==
    IF Len(b) = 0 THEN << >>
    ELSE LET n == Need(b[1])
             ok == /\ n >= 0
                   /\ Len(b) >= n + 1
                   /\ \A i \in 2..(n + 1) : IsCont(b[i])
             cp == IF n = 0 THEN b[1]
                   ELSE IF n = 1 THEN (b[1] - 192) * 64 + (b[2] - 128)
                   ELSE IF n = 2
                        THEN (b[1] - 224) * 4096 + (b[2] - 128) * 64 + (b[3] - 128)
                   ELSE (b[1] - 240) * 262144 + (b[2] - 128) * 4096
                        + (b[3] - 128) * 64 + (b[4] - 128)
             valid == /\ ok
                      /\ (n = 2 => cp >= 2048 /\ ~(cp >= 55296 /\ cp <= 57343))
                      /\ (n = 3 => cp >= 65536 /\ cp <= 1114111)
         IN IF valid
            THEN CodeUnits(cp) \o Utf8Decode(SubSeq(b, n + 2, Len(b)))
            ELSE <<REPLACEMENT>> \o Utf8Decode(Tail(b))

(***************************************************************************)
(* buffer.toString("hex") and Buffer.from(hex, "hex"): a hex string is its *)
(* sequence of digits 0..15.                                               *)
(***************************************************************************)
RECURSIVE ToHex(_)
ToHex(b) ==
    IF Len(b) = 0 THEN << >>
    ELSE <<b[1] \div 16, b[1] % 16>> \o ToHex(Tail(b))

RECURSIVE FromHex(_)
FromHex(h) ==
    IF Len(h) < 2 THEN << >>
    ELSE <<16 * h[1] + h[2]>> \o FromHex(SubSeq(h, 3, Len(h)))

(***************************************************************************)
(* shamirs-secret-sharing: split and combine over GF(2^8).  A share is the *)
(* byte of its x coordinate followed by one y byte per byte of the secret. *)
(***************************************************************************)
RECURSIVE Xor(_, _)
Xor(a, b) ==
    IF a = 0 THEN b
    ELSE IF b = 0 THEN a
    ELSE (((a % 2) + (b % 2)) % 2) + 2 * Xor(a \div 2, b \div 2)

XTime(a) == IF 2 * a >= 256 THEN Xor(2 * a - 256, 27) ELSE 2 * a

RECURSIVE GMul(_, _)
GMul(a, b) ==
    IF b = 0 \/ a = 0 THEN 0
    ELSE Xor(IF b % 2 = 1 THEN a ELSE 0, GMul(XTime(a), b \div 2))

\* a^254, the inverse of a in GF(2^8)
GInv(a) ==
    LET a2 == GMul(a, a)
        a4 == GMul(a2, a2)
        a8 == GMul(a4, a4)
        a16 == GMul(a8, a8)
        a32 == GMul(a16, a16)
        a64 == GMul(a32, a32)
        a128 == GMul(a64, a64)
    IN  GMul(a2, GMul(a4, GMul(a8, GMul(a16, GMul(a32, GMul(a64, a128))))))

\* the k-th coefficient of the random polynomial that hides byte i
Coef(seed, i, k) == ((seed * 31) + (i * 7) + (k * 13)) % 256

\* secret + c1 x + ... + c(t-1) x^(t-1), by Horner's rule
PolyAt(secretByte, seed, i, x, threshold) ==
    LET RECURSIVE Go(_)
        Go(k) == IF k = threshold - 1 THEN Coef(seed, i, k)
                 ELSE Xor(IF k = 0 THEN secretByte ELSE Coef(seed, i, k),
                          GMul(x, Go(k + 1)))
    IN  IF threshold = 1 THEN secretByte ELSE Go(0)

split(secret, shares, threshold, seed) ==
    [x \in 1..shares |->
        <<x>> \o [i \in 1..Len(secret) |-> PolyAt(secret[i], seed, i, x, threshold)]]

\* Lagrange basis polynomial of share j evaluated at 0
Basis(xs, j) ==
    LET RECURSIVE Go(_)
        Go(m) == IF m > Len(xs) THEN 1
                 ELSE IF m = j THEN Go(m + 1)
                 ELSE GMul(GMul(xs[m], GInv(Xor(xs[m], xs[j]))), Go(m + 1))
    IN  Go(1)

combine(shares) ==
    LET xs == [j \in 1..Len(shares) |-> shares[j][1]]
        bs == [j \in 1..Len(shares) |-> Basis(xs, j)]
        n == Len(shares[1]) - 1
        RECURSIVE Sum(_, _)
        Sum(i, j) == IF j > Len(shares) THEN 0
                     ELSE Xor(GMul(shares[j][i + 1], bs[j]), Sum(i, j + 1))
    IN  [i \in 1..n |-> Sum(i, 1)]

(***************************************************************************)
(* helpers.ts                                                              *)
(***************************************************************************)
\* (mutant) the offset without the ceilings
calculateExpirationDatetimeUnclamped(t, expiration) ==
    LET offset ==
            CASE expiration.value = "m" -> expiration.amount * MinuteMs
              [] expiration.value = "h" -> expiration.amount * HourMs
              [] expiration.value = "d" -> expiration.amount * DayMs
              [] OTHER -> 0
    IN  t + offset

\* `t` is the value of `new Date()` inside the call
calculateExpirationDatetime(t, expiration) ==
    LET offset ==
            CASE expiration.value = "m" -> Min(expiration.amount, MaxMinutes) * MinuteMs
              [] expiration.value = "h" -> Min(expiration.amount, MaxHours) * HourMs
              [] expiration.value = "d" -> Min(expiration.amount, MaxDays) * DayMs
              [] OTHER -> 0
    IN  t + offset

\* the identifiers generateShortId can return
Ids == 1..IdSpace

reassembleSecret(fragments) ==
    LET sharesBuffers == [j \in 1..Len(fragments) |-> FromHex(fragments[j])]
        recoveredBuffer == combine(sharesBuffers)
    IN  Utf8Decode(recoveredBuffer)

(***************************************************************************)
(* bcrypt: the salt of a hash is not modelled, a hash is the triple of the *)
(* scheme, the cost and the password it was derived from.                  *)
(***************************************************************************)
bcryptHash(password, rounds) == <<"$2b$", rounds, password>>
bcryptCompare(password, hash) == hash[3] = password

(***************************************************************************)
(* HTTP status codes (http-status-codes) and responses.  Status 0 stands   *)
(* for a handler that ended without writing a response.                    *)
(***************************************************************************)
OK == 200
BAD_REQUEST == 400
UNAUTHORIZED == 401
FORBIDDEN == 403
NOT_FOUND == 404
GONE == 410

Error(status, message) == [status |-> status, message |-> message, body |-> Null]
Json(body) == [status |-> OK, message |-> "", body |-> Some(body)]
\* the promise of an async handler rejected: the handler writes no response
Rejected == [status |-> 0, message |-> "unhandled rejection", body |-> Null]
\* the sweeper has no caller: what it logs
Logged(message) == [status |-> 0, message |-> message, body |-> Null]

(***************************************************************************)
(* Processes: one per request in flight.  pc is the await a handler is     *)
(* at, loc its local variables.  last is the response the latest step      *)
(* wrote, with the handler that wrote it (Silence if it wrote none).       *)
(* owed is a history variable: for each shortId the latest successful      *)
(* create whose deadline has not passed (recorded by the creates that are  *)
(* asked to).                                                              *)
(***************************************************************************)
Creators == {"c1", "c2"}
Readers == {"r1", "r2"}
Sweepers == {"cron"}
Askers == {"a1", "a2"}
Admins == {"d1"}
Receivers == {"v1", "v2"}
Procs == Creators \cup Readers \cup Sweepers \cup Askers \cup Admins \cup Receivers

NoLocals == [op |-> "none"]

\* the handler of `op` on path parameter `shortId` (0: none) ends with `response`
Finish(p, op, shortId, response) ==
    /\ pc' = [pc EXCEPT ![p] = "idle"]
    /\ loc' = [loc EXCEPT ![p] = NoLocals]
    /\ last' = [proc |-> p, op |-> op, shortId |-> shortId, status |-> response.status,
                message |-> response.message, body |-> response.body]

Silence ==
    [proc |-> "none", op |-> "none", shortId |-> 0, status |-> 0, message |-> "",
     body |-> Null]

Goto(p, label, locals) ==
    /\ pc' = [pc EXCEPT ![p] = label]
    /\ loc' = [loc EXCEPT ![p] = locals]
    /\ last' = Silence

Init ==
    /\ now = 0
    /\ secrets = {}
    /\ requests = {}
    /\ pc = [p \in Procs |-> "idle"]
    /\ loc = [p \in Procs |-> NoLocals]
    /\ last = Silence
    /\ owed = [id \in Ids |-> Null]

(***************************************************************************)
(* The clock.                                                              *)
(***************************************************************************)
Tick ==
    /\ now < MaxTicks * MinuteMs
    /\ now' = now + MinuteMs
    /\ owed' = [id \in Ids |->
                  IF ~IsNull(owed[id]) /\ now' > Val(owed[id]).expiresAt
                  THEN Null ELSE owed[id]]
    /\ last' = Silence
    /\ UNCHANGED <<secrets, requests, pc, loc>>

(***************************************************************************)
(* The store: table `secrets`, primary key shortId.                        *)
(***************************************************************************)
\* db("secrets").where({ shortId }): the rows the clause selects
SecretsWhere(shortId) == {row \in secrets : row.shortId = shortId}

\* .first(): a row of the selection, or undefined
First(rows) == IF rows = {} THEN {Null} ELSE {Some(row) : row \in rows}

\* (mutant) a table without the primary key
SecretsKeyFreeAlways(shortId) == TRUE

\* the primary key constraint of the table: an insert of a present key is rejected
SecretsKeyFree(shortId) == SecretsWhere(shortId) = {}

(***************************************************************************)
(* Requests the clients send to the vault.                                 *)
(***************************************************************************)
\* "a"; "e" with acute accent; a lone high surrogate; the empty string
Contents == {<<97>>, <<233>>, <<55296>>, << >>}
Seeds == {1, 2}

(***************************************************************************)
(* POST /api/create                                                        *)
(***************************************************************************)
\* (mutant) the handler without its validation
secretCreationSchemaLax(body) == TRUE

secretCreationSchema(body) ==
    /\ Len(body.content) >= 1
    /\ body.expiration.amount >= 1
    /\ body.expiration.value \in {"m", "h", "d"}

\* `password ? ... : null`: undefined and the empty string are both falsy
PasswordGiven(password) == ~IsNull(password) /\ Val(password) # ""

\* (mutant) one share fewer than SHARE_COUNT
SharesHexFewer(content, seed) ==
    LET secretBuffer == Utf8Encode(content)
        shares == split(secretBuffer, SHARE_COUNT - 1, SHARE_THRESHOLD - 1, seed)
    IN  [j \in 1..Len(shares) |-> ToHex(shares[j])]

\* Buffer.from, sss.split, toString("hex");  JSON.stringify into the jsonb
\* column and the driver's parse on the way back return the same array
SharesHex(content, seed) ==
    LET secretBuffer == Utf8Encode(content)
        shares == split(secretBuffer, SHARE_COUNT, SHARE_THRESHOLD, seed)
    IN  [j \in 1..Len(shares) |-> ToHex(shares[j])]

\* SharesHex and reassembleSecret, tabulated once for the requests of the model
Tabulated(f) == f @@ << >>
SharesHexOf == Tabulated([x \in Contents \X Seeds |-> SharesHex(x[1], x[2])])
Reassembled ==
    Tabulated([f \in {SharesHexOf[x] : x \in Contents \X Seeds} |-> reassembleSecret(f)])

\* validation, deadline, split, hash: up to the first store operation
CreateStart(c, body, seed) ==
    /\ pc[c] = "idle"
    /\ UNCHANGED <<now, secrets, requests, owed>>
    /\ IF ~secretCreationSchema(body)
       THEN Finish(c, "create", 0, Error(BAD_REQUEST, "validation"))
       ELSE LET expiresAt == calculateExpirationDatetime(now, body.expiration)
                sharesHex == SharesHexOf[<<body.content, seed>>]
                hash == IF PasswordGiven(body.password)
                        THEN Some(bcryptHash(Val(body.password), HASH_SALT))
                        ELSE Null
            IN  Goto(c, "alloc", [op |-> "create", body |-> body,
                                  expiresAt |-> expiresAt, fragments |-> sharesHex,
                                  hash |-> hash, shortId |-> 0])

\* (mutant) the id taken as generated, without the lookup
CreateAllocBlind(c, id) ==
    /\ pc[c] = "alloc"
    /\ UNCHANGED <<now, secrets, requests, owed>>
    /\ Goto(c, "insert", [loc[c] EXCEPT !.shortId = id])

\* one turn of the do-while: generate an id, look it up
CreateAlloc(c, id) ==
    /\ pc[c] = "alloc"
    /\ UNCHANGED <<now, secrets, requests, owed>>
    /\ IF SecretsWhere(id) # {}
       THEN last' = Silence /\ UNCHANGED <<pc, loc>>
       ELSE Goto(c, "insert", [loc[c] EXCEPT !.shortId = id])

NewSecret(l) ==
    [shortId |-> l.shortId, expiresAt |-> l.expiresAt,
     fragments |-> l.fragments, hash |-> l.hash]

\* db("secrets").insert(...) and the response
CreateInsert(c, record) ==
    /\ pc[c] = "insert"
    /\ UNCHANGED <<now, requests>>
    /\ IF SecretsKeyFree(loc[c].shortId)
       THEN /\ secrets' = secrets \cup {NewSecret(loc[c])}
            /\ owed' = [owed EXCEPT ![loc[c].shortId] =
                          IF ~record \/ now > loc[c].expiresAt THEN Null
                          ELSE Some([content |-> loc[c].body.content,
                                     expiresAt |-> loc[c].expiresAt,
                                     hash |-> loc[c].hash, denied |-> FALSE])]
            /\ Finish(c, "create", 0, Json([shortlink |-> loc[c].shortId]))
       ELSE /\ UNCHANGED <<secrets, owed>>
            /\ Finish(c, "create", 0, Rejected)

(***************************************************************************)
(* GET /api/share/:shortId (op "get") and POST /api/share/:shortId (op     *)
(* "post", with a request body).                                           *)
(***************************************************************************)
secretRetrievalSchema(body) == ~IsNull(body.password) /\ Val(body.password) # ""

\* (mutant) a record expired from its deadline on, ">=" for ">"
IsExpiredAtDeadline(t, expiresAt) == t >= expiresAt

\* (mutant) the expiry check left out
IsExpiredNever(t, expiresAt) == FALSE

\* `now > new Date(secret.expiresAt)`
IsExpired(t, expiresAt) == t > expiresAt

\* the answers of both read handlers to an unknown id and to an expired record
SecretNotFound == Error(NOT_FOUND, "Secret not found")
SecretExpired == Error(NOT_FOUND, "Secret has expired")

\* validation (POST only), then db("secrets").where({ shortId }).first()
ReadStart(r, op, shortId, body) ==
    /\ pc[r] = "idle"
    /\ UNCHANGED <<now, secrets, requests, owed>>
    /\ IF op = "post" /\ ~secretRetrievalSchema(body)
       THEN Finish(r, op, shortId, Error(BAD_REQUEST, "validation"))
       ELSE \E found \in First(SecretsWhere(shortId)) :
                Goto(r, "check", [op |-> op, shortId |-> shortId,
                                  password |-> body.password, secret |-> found,
                                  owed |-> owed[shortId]])

\* (mutant) GET without the password gate
GetGateOpen(secret) == Json([content |-> Reassembled[secret.fragments]])

\* the password checks of GET and the response
GetGate(secret) ==
    IF ~IsNull(secret.hash)
    THEN Error(UNAUTHORIZED, "Password required")
    ELSE Json([content |-> Reassembled[secret.fragments]])

\* (mutant) POST answering a record without password
PostGateOpen(secret, password) ==
    IF ~IsNull(secret.hash) /\ ~bcryptCompare(password, Val(secret.hash))
    THEN Error(FORBIDDEN, "Incorrect password")
    ELSE Json([content |-> Reassembled[secret.fragments]])

\* (mutant) POST refusing every password after an incorrect one
PostGateLockout(secret, password) ==
    IF IsNull(secret.hash)
    THEN Error(BAD_REQUEST, "Secret is not password protected")
    ELSE IF \/ ~bcryptCompare(password, Val(secret.hash))
            \/ (~IsNull(owed[secret.shortId]) /\ Val(owed[secret.shortId]).denied)
         THEN Error(FORBIDDEN, "Incorrect password")
    ELSE Json([content |-> Reassembled[secret.fragments]])

\* the password checks of POST and the response
PostGate(secret, password) ==
    IF IsNull(secret.hash)
    THEN Error(BAD_REQUEST, "Secret is not password protected")
    ELSE IF ~bcryptCompare(password, Val(secret.hash))
         THEN Error(FORBIDDEN, "Incorrect password")
    ELSE Json([content |-> Reassembled[secret.fragments]])

\* (mutant) the password checks ahead of the expiry check
ReadCheckGateFirst(r) ==
    /\ pc[r] = "check"
    /\ UNCHANGED <<now, secrets, requests, owed>>
    /\ LET l == loc[r]
           gate == IF l.op = "get" THEN GetGate(Val(l.secret))
                   ELSE PostGate(Val(l.secret), Val(l.password))
       IN  IF IsNull(l.secret)
           THEN Finish(r, l.op, l.shortId, SecretNotFound)
           ELSE IF gate.status # OK
                THEN Finish(r, l.op, l.shortId, gate)
           ELSE IF IsExpired(now, Val(l.secret).expiresAt)
                THEN Goto(r, "del", [op |-> l.op, shortId |-> l.shortId])
           ELSE Finish(r, l.op, l.shortId, gate)

\* (mutant) a read that answers the content grants the record another minute
ReadCheckExtending(r) ==
    /\ pc[r] = "check"
    /\ UNCHANGED <<now, requests, owed>>
    /\ LET l == loc[r]
       IN  IF IsNull(l.secret)
           THEN Finish(r, l.op, l.shortId, SecretNotFound)
           ELSE IF IsExpired(now, Val(l.secret).expiresAt)
                THEN Goto(r, "del", [op |-> l.op, shortId |-> l.shortId])
           ELSE IF l.op = "get"
                THEN Finish(r, l.op, l.shortId, GetGate(Val(l.secret)))
           ELSE Finish(r, l.op, l.shortId, PostGate(Val(l.secret), Val(l.password)))
    /\ secrets' = IF last'.status = OK
                  THEN {IF row.shortId = loc[r].shortId
                        THEN [row EXCEPT !.expiresAt = @ + MinuteMs]
                        ELSE row : row \in secrets}
                  ELSE secrets

\* (mutant) a read that deletes the record it answers the content of
ReadCheckBurning(r) ==
    /\ pc[r] = "check"
    /\ UNCHANGED <<now, requests, owed>>
    /\ LET l == loc[r]
       IN  IF IsNull(l.secret)
           THEN Finish(r, l.op, l.shortId, SecretNotFound)
           ELSE IF IsExpired(now, Val(l.secret).expiresAt)
                THEN Goto(r, "del", [op |-> l.op, shortId |-> l.shortId])
           ELSE IF l.op = "get"
                THEN Finish(r, l.op, l.shortId, GetGate(Val(l.secret)))
           ELSE Finish(r, l.op, l.shortId, PostGate(Val(l.secret), Val(l.password)))
    /\ secrets' = IF last'.status = OK THEN secrets \ SecretsWhere(loc[r].shortId)
                  ELSE secrets

\* the code between the lookup and the next store operation or the response;
\* owed notes an "Incorrect password" answered on the record it holds
ReadCheck(r) ==
    /\ pc[r] = "check"
    /\ UNCHANGED <<now, secrets, requests>>
    /\ LET l == loc[r]
       IN  IF IsNull(l.secret)
           THEN Finish(r, l.op, l.shortId, SecretNotFound)
           ELSE IF IsExpired(now, Val(l.secret).expiresAt)
                THEN Goto(r, "del", [op |-> l.op, shortId |-> l.shortId])
           ELSE IF l.op = "get"
                THEN Finish(r, l.op, l.shortId, GetGate(Val(l.secret)))
           ELSE Finish(r, l.op, l.shortId, PostGate(Val(l.secret), Val(l.password)))
    /\ owed' = IF last'.status = FORBIDDEN /\ ~IsNull(loc[r].owed)
                  /\ owed[loc[r].shortId] = loc[r].owed
               THEN [owed EXCEPT ![loc[r].shortId] = Some([Val(@) EXCEPT !.denied = TRUE])]
               ELSE owed

\* (mutant) a delete of no row taken for an error
ReadDelStrict(r) ==
    /\ pc[r] = "del"
    /\ UNCHANGED <<now, requests, owed>>
    /\ secrets' = secrets \ SecretsWhere(loc[r].shortId)
    /\ Finish(r, loc[r].op, loc[r].shortId,
              IF SecretsWhere(loc[r].shortId) = {} THEN Rejected ELSE SecretExpired)

\* (mutant) the expired result without the delete
ReadDelKeeps(r) ==
    /\ pc[r] = "del"
    /\ UNCHANGED <<now, secrets, requests, owed>>
    /\ Finish(r, loc[r].op, loc[r].shortId, SecretExpired)

\* db("secrets").where({ shortId }).del() and the response
ReadDel(r) ==
    /\ pc[r] = "del"
    /\ UNCHANGED <<now, requests, owed>>
    /\ secrets' = secrets \ SecretsWhere(loc[r].shortId)
    /\ Finish(r, loc[r].op, loc[r].shortId, SecretExpired)

(***************************************************************************)
(* cron.schedule("* * * * *", ...): the sweeper.                           *)
(***************************************************************************)
\* (mutant) a sweep that deletes nothing
SweepIdle(w) ==
    /\ pc[w] = "idle"
    /\ UNCHANGED <<now, secrets, requests, owed>>
    /\ Finish(w, "sweep", 0, Logged(""))

\* (mutant) the sweep with "<=" for "<"
SweepEager(w) ==
    /\ pc[w] = "idle"
    /\ UNCHANGED <<now, requests, owed>>
    /\ LET expired == {row \in secrets : row.expiresAt <= now}
       IN  /\ secrets' = secrets \ expired
           /\ Finish(w, "sweep", 0,
                     Logged(IF Cardinality(expired) > 0 THEN "Cleaned up" ELSE ""))

\* (mutant) the sweep extended to the requests
SweepRequests(w) ==
    /\ pc[w] = "idle"
    /\ UNCHANGED <<now, owed>>
    /\ requests' = {row \in requests :
                        IsNull(row.expiresAt) \/ Val(row.expiresAt) >= now}
    /\ LET expired == {row \in secrets : row.expiresAt < now}
       IN  /\ secrets' = secrets \ expired
           /\ Finish(w, "sweep", 0,
                     Logged(IF Cardinality(expired) > 0 THEN "Cleaned up" ELSE ""))

\* db("secrets").where("expiresAt", "<", new Date()).del()
Sweep(w) ==
    /\ pc[w] = "idle"
    /\ UNCHANGED <<now, requests, owed>>
    /\ LET expired == {row \in secrets : row.expiresAt < now}
       IN  /\ secrets' = secrets \ expired
           /\ Finish(w, "sweep", 0,
                     Logged(IF Cardinality(expired) > 0 THEN "Cleaned up" ELSE ""))

\* (mutant) the rejection of the query escapes the callback and ends the schedule
SweepFailEscaping(w) ==
    /\ pc[w] = "idle"
    /\ UNCHANGED <<now, secrets, requests, owed, loc>>
    /\ pc' = [pc EXCEPT ![w] = "stopped"]
    /\ last' = [proc |-> w, op |-> "sweep", shortId |-> 0, status |-> 0,
                message |-> "unhandled rejection", body |-> Null]

\* the store rejects the query: the catch block logs the error
SweepFail(w) ==
    /\ pc[w] = "idle"
    /\ UNCHANGED <<now, secrets, requests, owed>>
    /\ Finish(w, "sweep", 0, Logged("Error cleaning up expired secrets"))

(***************************************************************************)
(* The store: table `secret_requests`, primary key adminShortId.           *)
(***************************************************************************)
RequestsWhereAdmin(shortId) == {row \in requests : row.adminShortId = shortId}
RequestsWhereReceiver(shortId) == {row \in requests : row.receiverShortId = shortId}

\* the primary key constraint of the table
RequestsKeyFree(adminShortId) == RequestsWhereAdmin(adminShortId) = {}

\* `request.content || ""`
ContentOrEmpty(content) == IF IsNull(content) THEN "" ELSE Val(content)

(***************************************************************************)
(* POST /api/ask                                                           *)
(***************************************************************************)
askCreationSchema(body) == body.period >= 1

AskStart(a, body) ==
    /\ pc[a] = "idle"
    /\ UNCHANGED <<now, secrets, requests, owed>>
    /\ IF ~askCreationSchema(body)
       THEN Finish(a, "ask", 0, Error(BAD_REQUEST, "validation"))
       ELSE Goto(a, "allocReceiver", [op |-> "ask", period |-> body.period,
                                      receiverShortId |-> 0, adminShortId |-> 0])

\* one turn of the first do-while
AskAllocReceiver(a, id) ==
    /\ pc[a] = "allocReceiver"
    /\ UNCHANGED <<now, secrets, requests, owed>>
    /\ IF RequestsWhereReceiver(id) # {}
       THEN last' = Silence /\ UNCHANGED <<pc, loc>>
       ELSE Goto(a, "allocAdmin", [loc[a] EXCEPT !.receiverShortId = id])

\* one turn of the second do-while
AskAllocAdmin(a, id) ==
    /\ pc[a] = "allocAdmin"
    /\ UNCHANGED <<now, secrets, requests, owed>>
    /\ IF RequestsWhereAdmin(id) # {}
       THEN last' = Silence /\ UNCHANGED <<pc, loc>>
       ELSE Goto(a, "insert", [loc[a] EXCEPT !.adminShortId = id])

NewRequest(l) ==
    [adminShortId |-> l.adminShortId, receiverShortId |-> l.receiverShortId,
     period |-> l.period, expiresAt |-> Null, content |-> Null]

\* db("secret_requests").insert(...) and the response
AskInsert(a) ==
    /\ pc[a] = "insert"
    /\ UNCHANGED <<now, secrets, owed>>
    /\ IF RequestsKeyFree(loc[a].adminShortId)
       THEN /\ requests' = requests \cup {NewRequest(loc[a])}
            /\ Finish(a, "ask", 0, Json([adminShortId |-> loc[a].adminShortId,
                                      receiverShortId |-> loc[a].receiverShortId]))
       ELSE /\ UNCHANGED requests
            /\ Finish(a, "ask", 0, Rejected)

(***************************************************************************)
(* GET /api/admin/:shortId                                                 *)
(***************************************************************************)
\* (mutant) the admin read with the expiry check of the receiver read
AdminReadExpiring(d, shortId) ==
    /\ pc[d] = "idle"
    /\ UNCHANGED <<now, secrets, requests, owed>>
    /\ \E request \in First(RequestsWhereAdmin(shortId)) :
           IF IsNull(request)
           THEN Finish(d, "adminRead", shortId, Error(NOT_FOUND, "Request not found"))
           ELSE IF ~IsNull(Val(request).expiresAt)
                   /\ IsExpired(now, Val(Val(request).expiresAt))
                THEN Finish(d, "adminRead", shortId, Error(NOT_FOUND, "Secret has expired"))
           ELSE Finish(d, "adminRead", shortId,
                       Json([content |-> ContentOrEmpty(Val(request).content)]))

\* the lookup is the handler's only store operation
AdminRead(d, shortId) ==
    /\ pc[d] = "idle"
    /\ UNCHANGED <<now, secrets, requests, owed>>
    /\ \E request \in First(RequestsWhereAdmin(shortId)) :
           IF IsNull(request)
           THEN Finish(d, "adminRead", shortId, Error(NOT_FOUND, "Request not found"))
           ELSE Finish(d, "adminRead", shortId,
                       Json([content |-> ContentOrEmpty(Val(request).content)]))

(***************************************************************************)
(* GET /api/receiver/:shortId                                              *)
(***************************************************************************)
\* db("secret_requests").where({ receiverShortId: shortId }).first()
ReceiverReadStart(v, shortId) ==
    /\ pc[v] = "idle"
    /\ UNCHANGED <<now, secrets, requests, owed>>
    /\ \E request \in First(RequestsWhereReceiver(shortId)) :
           Goto(v, "readCheck", [op |-> "receiverRead", shortId |-> shortId,
                                 request |-> request])

\* (mutant) the deadline counted from the origin of time, not from the read
ReceiverReadCheckFromOrigin(v) ==
    /\ pc[v] = "readCheck"
    /\ UNCHANGED <<now, secrets, requests, owed>>
    /\ LET l == loc[v]
       IN  IF IsNull(l.request)
           THEN Finish(v, l.op, l.shortId, Error(NOT_FOUND, "Request not found"))
           ELSE IF IsNull(Val(l.request).expiresAt)
                THEN Goto(v, "readUpdate",
                          [op |-> l.op, shortId |-> l.shortId,
                           content |-> Val(l.request).content, at |-> now,
                           period |-> Val(l.request).period,
                           expiresAt |-> calculateExpirationDatetime(
                               0, [amount |-> Val(l.request).period, value |-> "m"])])
           ELSE IF IsExpired(now, Val(Val(l.request).expiresAt))
                THEN Finish(v, l.op, l.shortId, Error(NOT_FOUND, "Secret has expired"))
           ELSE Finish(v, l.op, l.shortId, Json([content |-> ContentOrEmpty(Val(l.request).content)]))

\* (mutant) the receiver read deleting the expired request, as the vault does
ReceiverReadCheckPurging(v) ==
    /\ pc[v] = "readCheck"
    /\ UNCHANGED <<now, secrets, owed>>
    /\ LET l == loc[v]
       IN  IF IsNull(l.request)
           THEN /\ UNCHANGED requests
                /\ Finish(v, l.op, l.shortId, Error(NOT_FOUND, "Request not found"))
           ELSE IF IsNull(Val(l.request).expiresAt)
                THEN /\ UNCHANGED requests
                     /\ Goto(v, "readUpdate",
                          [op |-> l.op, shortId |-> l.shortId,
                           content |-> Val(l.request).content, at |-> now,
                           period |-> Val(l.request).period,
                           expiresAt |-> calculateExpirationDatetime(
                               now, [amount |-> Val(l.request).period, value |-> "m"])])
           ELSE IF IsExpired(now, Val(Val(l.request).expiresAt))
                THEN /\ requests' = requests \ RequestsWhereReceiver(l.shortId)
                     /\ Finish(v, l.op, l.shortId, Error(NOT_FOUND, "Secret has expired"))
           ELSE /\ UNCHANGED requests
                /\ Finish(v, l.op, l.shortId,
                          Json([content |-> ContentOrEmpty(Val(l.request).content)]))

\* the code between the lookup and the update or the response
ReceiverReadCheck(v) ==
    /\ pc[v] = "readCheck"
    /\ UNCHANGED <<now, secrets, requests, owed>>
    /\ LET l == loc[v]
       IN  IF IsNull(l.request)
           THEN Finish(v, l.op, l.shortId, Error(NOT_FOUND, "Request not found"))
           ELSE IF IsNull(Val(l.request).expiresAt)
                THEN Goto(v, "readUpdate",
                          [op |-> l.op, shortId |-> l.shortId,
                           content |-> Val(l.request).content, at |-> now,
                           period |-> Val(l.request).period,
                           expiresAt |-> calculateExpirationDatetime(
                               now, [amount |-> Val(l.request).period, value |-> "m"])])
           ELSE IF IsExpired(now, Val(Val(l.request).expiresAt))
                THEN Finish(v, l.op, l.shortId, Error(NOT_FOUND, "Secret has expired"))
           ELSE Finish(v, l.op, l.shortId, Json([content |-> ContentOrEmpty(Val(l.request).content)]))

\* .where({ receiverShortId: shortId }).update({ expiresAt }) and the response
ReceiverReadUpdate(v) ==
    /\ pc[v] = "readUpdate"
    /\ UNCHANGED <<now, secrets, owed>>
    /\ requests' = {IF row.receiverShortId = loc[v].shortId
                    THEN [row EXCEPT !.expiresAt = Some(loc[v].expiresAt)]
                    ELSE row : row \in requests}
    /\ Finish(v, loc[v].op, loc[v].shortId, Json([content |-> ContentOrEmpty(loc[v].content)]))

(***************************************************************************)
(* POST /api/receiver/:shortId                                             *)
(***************************************************************************)
respondRequestSchema(body) == body.content # ""

\* validation, then the lookup
ReceiverWriteStart(v, shortId, body) ==
    /\ pc[v] = "idle"
    /\ UNCHANGED <<now, secrets, requests, owed>>
    /\ IF ~respondRequestSchema(body)
       THEN Finish(v, "receiverWrite", shortId, Error(BAD_REQUEST, "validation"))
       ELSE \E request \in First(RequestsWhereReceiver(shortId)) :
                Goto(v, "writeCheck", [op |-> "receiverWrite", shortId |-> shortId,
                                       content |-> body.content, request |-> request])

\* (mutant) a write that does not ask whether the request was activated
ReceiverWriteCheckUngated(v) ==
    /\ pc[v] = "writeCheck"
    /\ UNCHANGED <<now, secrets, requests, owed>>
    /\ LET l == loc[v]
       IN  IF IsNull(l.request)
           THEN Finish(v, l.op, l.shortId, Error(NOT_FOUND, "Request not found"))
           ELSE IF ~IsNull(Val(l.request).expiresAt)
                   /\ IsExpired(now, Val(Val(l.request).expiresAt))
                THEN Finish(v, l.op, l.shortId, Error(NOT_FOUND, "Request has expired"))
           ELSE Goto(v, "writeUpdate",
                     [op |-> l.op, shortId |-> l.shortId, content |-> l.content])

\* the code between the lookup and the update or the response
ReceiverWriteCheck(v) ==
    /\ pc[v] = "writeCheck"
    /\ UNCHANGED <<now, secrets, requests, owed>>
    /\ LET l == loc[v]
       IN  IF IsNull(l.request)
           THEN Finish(v, l.op, l.shortId, Error(NOT_FOUND, "Request not found"))
           ELSE IF IsNull(Val(l.request).expiresAt)
                THEN Finish(v, l.op, l.shortId, Error(UNAUTHORIZED, "Request not found"))
           ELSE IF IsExpired(now, Val(Val(l.request).expiresAt))
                THEN Finish(v, l.op, l.shortId, Error(NOT_FOUND, "Request has expired"))
           ELSE Goto(v, "writeUpdate",
                     [op |-> l.op, shortId |-> l.shortId, content |-> l.content])

\* (mutant) a write that stores the content and a fresh deadline
ReceiverWriteUpdateRenewing(v) ==
    /\ pc[v] = "writeUpdate"
    /\ UNCHANGED <<now, secrets, owed>>
    /\ requests' = {IF row.receiverShortId = loc[v].shortId
                    THEN [row EXCEPT !.content = Some(loc[v].content),
                                     !.expiresAt = Some(now + MinuteMs)]
                    ELSE row : row \in requests}
    /\ Finish(v, loc[v].op, loc[v].shortId, Json([content |-> loc[v].content]))

\* .where({ receiverShortId: shortId }).update({ content }) and the response
ReceiverWriteUpdate(v) ==
    /\ pc[v] = "writeUpdate"
    /\ UNCHANGED <<now, secrets, owed>>
    /\ requests' = {IF row.receiverShortId = loc[v].shortId
                    THEN [row EXCEPT !.content = Some(loc[v].content)]
                    ELSE row : row \in requests}
    /\ Finish(v, loc[v].op, loc[v].shortId, Json([content |-> loc[v].content]))

(***************************************************************************)
(* The vault with one request of each kind in flight.                      *)
(***************************************************************************)
Expirations == {[amount |-> 1, value |-> "m"], [amount |-> 0, value |-> "m"]}
Passwords == {Null, Some("p4ss")}
CreateBodies == [content : {<<97>>, << >>}, expiration : Expirations, password : Passwords]
RetrievalBodies == {[password |-> Some("p4ss")], [password |-> Some("wrong")],
                    [password |-> Some("")]}
NoBody == [password |-> Null]

VaultNext(creators, readers, bodies, retrievals, seeds, record) ==
    \/ Tick
    \/ \E c \in creators, body \in bodies, seed \in seeds : CreateStart(c, body, seed)
    \/ \E c \in creators, id \in Ids : CreateAlloc(c, id)
    \/ \E c \in creators : CreateInsert(c, record)
    \/ \E r \in readers, id \in Ids : ReadStart(r, "get", id, NoBody)
    \/ \E r \in readers, id \in Ids, body \in retrievals : ReadStart(r, "post", id, body)
    \/ \E r \in readers : ReadCheck(r)
    \/ \E r \in readers : ReadDel(r)
    \/ \E w \in Sweepers : Sweep(w)
    \/ \E w \in Sweepers : SweepFail(w)

Next == VaultNext({"c1"}, {"r1"}, CreateBodies, RetrievalBodies, {1}, FALSE)

Spec == Init /\ [][Next]_vars

\* cron runs the callback every minute: a sweep that the store accepts
\* keeps occurring
SpecLive == Spec /\ WF_vars(\E w \in Sweepers : Sweep(w))

\* generateShortId draws every identifier again and again: a turn of the
\* loop with an identifier that would end the loop keeps occurring
SpecDraws == Spec /\ \A id \in Ids : WF_vars(CreateAlloc("c1", id))

\* two creates in flight, the creates recorded in owed
RaceBodies ==
    [content : {<<97>>, <<55296>>}, expiration : {[amount |-> 1, value |-> "m"]},
     password : {Null}]
\* creates with and without password, the creates recorded in owed
PasswordBodies ==
    [content : {<<97>>}, expiration : {[amount |-> 1, value |-> "m"]},
     password : {Null, Some("p4ss"), Some("")}]
SpecPasswords ==
    Init /\ [][VaultNext({"c1"}, {"r1"}, PasswordBodies,
                         {[password |-> Some("p4ss")], [password |-> Some("wrong")]},
                         {1}, TRUE)]_vars

\* creates with amounts below, at and above the ceiling of each unit
ExpiryBodies ==
    [content : {<<97>>},
     expiration : ([amount : {1, 60, 61}, value : {"m"}]
                   \cup [amount : {1, 24, 25}, value : {"h"}]
                   \cup [amount : {1, 7, 8}, value : {"d"}]),
     password : {Null}]
SpecExpiry ==
    Init /\ [][VaultNext({"c1"}, {"r1"}, ExpiryBodies, {[password |-> Some("p4ss")]},
                         {1}, FALSE)]_vars

\* one content for one minute, with and without password
ServiceBodies ==
    [content : {<<97>>}, expiration : {[amount |-> 1, value |-> "m"]},
     password : {Null, Some("p4ss")}]

\* two reads in flight, creates with and without password
SpecReaders ==
    Init /\ [][VaultNext({"c1"}, Readers, ServiceBodies, {[password |-> Some("wrong")]},
                         {1}, FALSE)]_vars

SpecRace ==
    Init /\ [][VaultNext(Creators, {"r1"}, RaceBodies, {[password |-> Some("p4ss")]},
                         {1}, TRUE)]_vars

(***************************************************************************)
(* The exchange.                                                           *)
(***************************************************************************)
AskBodies == {[period |-> 0], [period |-> 1], [period |-> 61]}
RespondBodies == {[content |-> ""], [content |-> "x"], [content |-> "y"]}

ExchangeNext(askers, admins, receivers, asks, responds) ==
    \/ Tick
    \/ \E a \in askers, body \in asks : AskStart(a, body)
    \/ \E a \in askers, id \in Ids : AskAllocReceiver(a, id)
    \/ \E a \in askers, id \in Ids : AskAllocAdmin(a, id)
    \/ \E a \in askers : AskInsert(a)
    \/ \E d \in admins, id \in Ids : AdminRead(d, id)
    \/ \E v \in receivers, id \in Ids : ReceiverReadStart(v, id)
    \/ \E v \in receivers : ReceiverReadCheck(v)
    \/ \E v \in receivers : ReceiverReadUpdate(v)
    \/ \E v \in receivers, id \in Ids, body \in responds : ReceiverWriteStart(v, id, body)
    \/ \E v \in receivers : ReceiverWriteCheck(v)
    \/ \E v \in receivers : ReceiverWriteUpdate(v)

\* one request of each kind in flight
SpecExchange ==
    Init /\ [][ExchangeNext({"a1"}, Admins, {"v1"}, AskBodies, RespondBodies)]_vars

\* two receiver requests in flight
SpecReceivers ==
    Init /\ [][ExchangeNext({"a1"}, Admins, Receivers, {[period |-> 1]},
                            {[content |-> "x"]})]_vars

\* the exchange and the sweeper
SpecSwept ==
    Init /\ [][\/ ExchangeNext({"a1"}, Admins, {"v1"}, {[period |-> 1]},
                                {[content |-> "x"]})
               \/ \E w \in Sweepers : Sweep(w)
               \/ \E w \in Sweepers : SweepFail(w)]_vars

\* two asks in flight
SpecAsks ==
    Init /\ [][ExchangeNext(Askers, Admins, {"v1"}, {[period |-> 1]},
                            {[content |-> "x"]})]_vars

(***************************************************************************)
(* The four handlers that validate a request body, with one identifier,    *)
(* and the receiver read that opens a request for writes.                  *)
(***************************************************************************)
InvalidCreateBodies ==
    {[content |-> << >>, expiration |-> [amount |-> 1, value |-> "m"], password |-> Null],
     [content |-> <<97>>, expiration |-> [amount |-> 0, value |-> "m"], password |-> Null],
     [content |-> <<97>>, expiration |-> [amount |-> 1, value |-> "w"], password |-> Null]}
ValidCreateBodies ==
    {[content |-> <<97>>, expiration |-> [amount |-> 1, value |-> "m"],
      password |-> Some("p4ss")]}

ValidationNext ==
    \/ Tick
    \/ \E body \in InvalidCreateBodies \cup ValidCreateBodies : CreateStart("c1", body, 1)
    \/ CreateAlloc("c1", 1)
    \/ CreateInsert("c1", FALSE)
    \/ \E body \in {NoBody, [password |-> Some("")], [password |-> Some("p4ss")]} :
           ReadStart("r1", "post", 1, body)
    \/ ReadCheck("r1")
    \/ ReadDel("r1")
    \/ \E body \in {[period |-> 0], [period |-> 1]} : AskStart("a1", body)
    \/ AskAllocReceiver("a1", 1)
    \/ AskAllocAdmin("a1", 1)
    \/ AskInsert("a1")
    \/ ReceiverReadStart("v1", 1)
    \/ ReceiverReadCheck("v1")
    \/ ReceiverReadUpdate("v1")
    \/ \E body \in {[content |-> ""], [content |-> "x"]} : ReceiverWriteStart("v1", 1, body)
    \/ ReceiverWriteCheck("v1")
    \/ ReceiverWriteUpdate("v1")

SpecValidation == Init /\ [][ValidationNext]_vars

(***************************************************************************)
(* A request that was created at the origin of time and is left pending:   *)
(* the admin and the receivers act on it, no further request is created.   *)
(***************************************************************************)
InitPending ==
    /\ now = 0
    /\ secrets = {}
    /\ requests = {NewRequest([adminShortId |-> 1, receiverShortId |-> 2, period |-> 1])}
    /\ pc = [p \in Procs |-> "idle"]
    /\ loc = [p \in Procs |-> NoLocals]
    /\ last = Silence
    /\ owed = [id \in Ids |-> Null]

PendingNext ==
    \/ Tick
    \/ \E d \in Admins : AdminRead(d, 1)
    \/ \E v \in Receivers : ReceiverReadStart(v, 2)
    \/ \E v \in Receivers : ReceiverReadCheck(v)
    \/ \E v \in Receivers : ReceiverReadUpdate(v)
    \/ \E v \in Receivers : ReceiverWriteStart(v, 2, [content |-> "x"])
    \/ \E v \in Receivers : ReceiverWriteCheck(v)
    \/ \E v \in Receivers : ReceiverWriteUpdate(v)

SpecPending == InitPending /\ [][PendingNext]_vars

(***************************************************************************)
(* The whole service: the vault on identifier 1, the sweeper, and one      *)
(* exchange request with adminShortId 1 and receiverShortId 2.             *)
(***************************************************************************)
ServiceNext ==
    \/ Tick
    \/ \E body \in ServiceBodies : CreateStart("c1", body, 1)
    \/ CreateAlloc("c1", 1)
    \/ CreateInsert("c1", FALSE)
    \/ ReadStart("r1", "get", 1, NoBody)
    \/ ReadStart("r1", "post", 1, [password |-> Some("p4ss")])
    \/ ReadCheck("r1")
    \/ ReadDel("r1")
    \/ \E w \in Sweepers : Sweep(w)
    \/ \E w \in Sweepers : SweepFail(w)
    \/ AskStart("a1", [period |-> 1])
    \/ AskAllocReceiver("a1", 2)
    \/ AskAllocAdmin("a1", 1)
    \/ AskInsert("a1")
    \/ \E id \in Ids : AdminRead("d1", id)
    \/ \E id \in Ids : ReceiverReadStart("v1", id)
    \/ ReceiverReadCheck("v1")
    \/ ReceiverReadUpdate("v1")
    \/ \E id \in Ids : ReceiverWriteStart("v1", id, [content |-> "x"])
    \/ ReceiverWriteCheck("v1")
    \/ ReceiverWriteUpdate("v1")

SpecService == Init /\ [][ServiceNext]_vars

(***************************************************************************)
(* Properties.  Step(p, label): process p leaves the await `label`.        *)
(***************************************************************************)
Step(p, label) == pc[p] = label /\ pc'[p] # label

\* C1: a read (GET or POST) that samples now > expiresAt of the record it
\* looked up writes no response with the content: it goes on to the delete
\* and answers with an error
C1_ExpiredNeverReturned ==
    [][\A r \in Readers :
        /\ (/\ Step(r, "check")
            /\ ~IsNull(loc[r].secret)
            /\ now > Val(loc[r].secret).expiresAt)
           => pc'[r] = "del" /\ last' = Silence
        /\ Step(r, "del")
           => last'.proc = r /\ last'.status # OK /\ IsNull(last'.body)]_vars

C1_Witness ==
    last.op = "post" /\ last.status = NOT_FOUND /\ last.message = "Secret has expired"

\* C2: on a live record, GET answers Password required without content when
\* the hash is set and the content when it is null; POST answers the content
\* only if the hash is set and was derived from the supplied password
C2_PasswordGate ==
    [][\A r \in Readers :
        (/\ Step(r, "check")
         /\ ~IsNull(loc[r].secret)
         /\ now <= Val(loc[r].secret).expiresAt)
        => LET secret == Val(loc[r].secret)
           IN  /\ last'.proc = r
               /\ (loc[r].op = "get" /\ ~IsNull(secret.hash))
                  => /\ last'.status = UNAUTHORIZED
                     /\ last'.message = "Password required"
                     /\ IsNull(last'.body)
               /\ (loc[r].op = "get" /\ IsNull(secret.hash))
                  => /\ last'.status = OK
                     /\ last'.body = Some([content |-> Reassembled[secret.fragments]])
               /\ (loc[r].op = "post" /\ ~IsNull(last'.body))
                  => /\ ~IsNull(secret.hash)
                     /\ Val(secret.hash)[3] = Val(loc[r].password)]_vars

C2_Witness ==
    last.op = "post" /\ last.status = OK /\ ~IsNull(last.body)

\* C3 (as claimed): a GET of shortId s that is looked up after a create
\* without password returned s, and that samples now <= expiresAt of the
\* created record, answers exactly the created content
C3_RoundTrip ==
    [][\A r \in Readers :
        (/\ Step(r, "check")
         /\ loc[r].op = "get"
         /\ ~IsNull(loc[r].owed)
         /\ IsNull(Val(loc[r].owed).hash)
         /\ now <= Val(loc[r].owed).expiresAt)
        => /\ last'.proc = r
           /\ last'.status = OK
           /\ last'.body = Some([content |-> Val(loc[r].owed).content])]_vars

\* C4: no two rows of secrets share a shortId, and the insert of a create
\* leaves every row that was there in place
C4_UniqueShortIds ==
    /\ [](\A x, y \in secrets : x.shortId = y.shortId => x = y)
    /\ [][\A c \in Creators : Step(c, "insert") => secrets \subseteq secrets']_vars

\* two creates raced for one id: the insert of the second was rejected
C4_Witness ==
    /\ last.op = "create"
    /\ last.message = "unhandled rejection"
    /\ secrets # {}

\* C5 (as claimed): once expiresAt of a request is set it never changes
C5_ExpiresAtWrittenOnce ==
    [][\A row \in requests :
        ~IsNull(row.expiresAt)
        => \A after \in requests' :
               after.adminShortId = row.adminShortId
               => after.expiresAt = row.expiresAt]_vars

\* C6 (as claimed): no step taken at a time later than expiresAt of a
\* request changes the content of the request
C6_NoWriteAfterExpiry ==
    [][\A row \in requests :
        (~IsNull(row.expiresAt) /\ now > Val(row.expiresAt))
        => \A after \in requests' :
               after.adminShortId = row.adminShortId
               => after.content = row.content]_vars

\* C7: a write that looked up a request with expiresAt null answers 401 and
\* ends without a store write
C7_WriteBeforeActivation ==
    [][\A v \in Receivers :
        (/\ Step(v, "writeCheck")
         /\ ~IsNull(loc[v].request)
         /\ IsNull(Val(loc[v].request).expiresAt))
        => /\ last'.proc = v
           /\ last'.status = UNAUTHORIZED
           /\ IsNull(last'.body)
           /\ pc'[v] = "idle"
           /\ requests' = requests]_vars

C7_Witness ==
    /\ last.op = "receiverWrite"
    /\ last.status = UNAUTHORIZED
    /\ \E row \in requests : row.receiverShortId = last.shortId /\ IsNull(row.expiresAt)

\* C8 (as claimed): the update of the activating read persists the time of
\* the read plus `period` minutes
C8_DeadlineIsPeriodMinutes ==
    [][\A v \in Receivers :
        Step(v, "readUpdate")
        => \A row \in requests' :
               row.receiverShortId = loc[v].shortId
               => row.expiresAt = Some(loc[v].at + loc[v].period * MinuteMs)]_vars

\* C9 (as claimed): adminRead answers the content of the request, empty
\* before a write; the update of a receiverRead sets expiresAt; a
\* receiverWrite for a receiverShortId that has an activated request finds
\* an activated request, goes on to its update if it samples
\* now <= expiresAt, and the update stores and answers its content; content
\* changes by the update of a receiverWrite only
C9_Handshake ==
    [][/\ \A d \in Admins, row \in requests :
            (last'.proc = d /\ last'.shortId = row.adminShortId /\ last' # last)
            => /\ last'.status = OK
               /\ last'.body = Some([content |-> ContentOrEmpty(row.content)])
       /\ \A v \in Receivers :
            /\ Step(v, "readUpdate")
               => \A row \in requests' :
                      row.receiverShortId = loc[v].shortId => ~IsNull(row.expiresAt)
            /\ (/\ pc[v] = "idle"
                /\ pc'[v] = "writeCheck"
                /\ \E row \in requests : /\ row.receiverShortId = loc'[v].shortId
                                         /\ ~IsNull(row.expiresAt))
               => /\ ~IsNull(loc'[v].request)
                  /\ ~IsNull(Val(loc'[v].request).expiresAt)
            /\ (/\ Step(v, "writeCheck")
                /\ ~IsNull(loc[v].request)
                /\ ~IsNull(Val(loc[v].request).expiresAt)
                /\ now <= Val(Val(loc[v].request).expiresAt))
               => pc'[v] = "writeUpdate" /\ loc'[v].content = loc[v].content
            /\ Step(v, "writeUpdate")
               => /\ last'.status = OK
                  /\ last'.body = Some([content |-> loc[v].content])
                  /\ \A row \in requests' :
                         row.receiverShortId = loc[v].shortId
                         => row.content = Some(loc[v].content)
       /\ (\E row \in requests : \E after \in requests' :
               after.adminShortId = row.adminShortId /\ after.content # row.content)
          => \E v \in Receivers : Step(v, "writeUpdate")]_vars

\* C10: a GET that samples now > expiresAt of the record it looked up goes
\* on to the delete; after the delete no row has the shortId and the answer
\* is 404
C10_ExpiredGetDeletes ==
    [][\A r \in Readers :
        /\ (/\ Step(r, "check")
            /\ loc[r].op = "get"
            /\ ~IsNull(loc[r].secret)
            /\ now > Val(loc[r].secret).expiresAt)
           => pc'[r] = "del" /\ loc'[r].shortId = loc[r].shortId
        /\ (Step(r, "del") /\ loc[r].op = "get")
           => /\ last'.proc = r
              /\ last'.status = NOT_FOUND
              /\ {row \in secrets' : row.shortId = loc[r].shortId} = {}]_vars

C10_Witness ==
    /\ last.op = "get"
    /\ last.status = NOT_FOUND
    /\ last.message = "Secret has expired"
    /\ SecretsWhere(last.shortId) = {}

\* C11 (as claimed): a GET that finds an expired record answers, after the
\* delete, what a GET of an unknown id answers: same status, message and body
C11_ExpiredLikeMissing ==
    [][\A r \in Readers :
        (Step(r, "del") /\ loc[r].op = "get")
        => /\ last'.proc = r
           /\ last'.status = SecretNotFound.status
           /\ last'.message = SecretNotFound.message
           /\ last'.body = SecretNotFound.body]_vars

\* C12 (as claimed): a POST that finds an expired record deletes it and
\* answers 410 Gone, a status other than the one for an unknown id
C12_ExpiredPostIsGone ==
    [][\A r \in Readers :
        (Step(r, "del") /\ loc[r].op = "post")
        => /\ last'.proc = r
           /\ {row \in secrets' : row.shortId = loc[r].shortId} = {}
           /\ last'.status = GONE
           /\ last'.status # SecretNotFound.status]_vars

\* C13: a POST that looked up a live record without hash answers 400
\* "Secret is not password protected" whatever the password, without
\* content, and leaves the table as it is
C13_NotPasswordProtected ==
    [][\A r \in Readers :
        (/\ Step(r, "check")
         /\ loc[r].op = "post"
         /\ ~IsNull(loc[r].secret)
         /\ now <= Val(loc[r].secret).expiresAt
         /\ IsNull(Val(loc[r].secret).hash))
        => /\ last'.proc = r
           /\ last'.status = BAD_REQUEST
           /\ last'.message = "Secret is not password protected"
           /\ IsNull(last'.body)
           /\ secrets' = secrets]_vars

C13_Witness ==
    /\ last.op = "post"
    /\ last.status = BAD_REQUEST
    /\ last.message = "Secret is not password protected"
    /\ \E row \in SecretsWhere(last.shortId) : IsNull(row.hash) /\ now <= row.expiresAt

\* C14: a POST that looked up a live record with hash answers 403
\* "Incorrect password" without content and without a store write if the
\* password does not verify, and the content if it verifies, whether or
\* not an incorrect password was answered on the record before
C14_NoLockout ==
    [][\A r \in Readers :
        (/\ Step(r, "check")
         /\ loc[r].op = "post"
         /\ ~IsNull(loc[r].secret)
         /\ now <= Val(loc[r].secret).expiresAt
         /\ ~IsNull(Val(loc[r].secret).hash))
        => LET secret == Val(loc[r].secret)
           IN  /\ last'.proc = r
               /\ Val(secret.hash)[3] # Val(loc[r].password)
                  => /\ last'.status = FORBIDDEN
                     /\ last'.message = "Incorrect password"
                     /\ IsNull(last'.body)
                     /\ secrets' = secrets
               /\ Val(secret.hash)[3] = Val(loc[r].password)
                  => /\ last'.status = OK
                     /\ last'.body = Some([content |-> Reassembled[secret.fragments]])]_vars

\* the content answered on a record that answered "Incorrect password" before
C14_Witness ==
    /\ last.op = "post"
    /\ last.status = OK
    /\ ~IsNull(last.body)
    /\ ~IsNull(owed[last.shortId])
    /\ Val(owed[last.shortId]).denied

\* C15 (as claimed): the row a create inserts has a hash if and only if the
\* request has a password field
C15_HashIffPassword ==
    [][\A c \in Creators :
        (Step(c, "insert") /\ last'.status = OK)
        => \A row \in secrets' \ secrets :
               IsNull(row.hash) <=> IsNull(loc[c].body.password)]_vars

\* C16: the deadline a create computes is the time of the call plus the
\* amount in its unit for amounts up to the ceiling of the unit (60 minutes,
\* 24 hours, 7 days), and the time of the call plus the ceiling for every
\* amount above it; no create of ExpiryBodies, whose amounts reach above
\* every ceiling, is refused
C16_DeadlineClamped ==
    /\ [][\A c \in Creators :
           (pc[c] = "idle" /\ pc'[c] = "alloc")
           => LET e == loc'[c].body.expiration
                  ceiling == CASE e.value = "m" -> 60
                               [] e.value = "h" -> 24
                               [] e.value = "d" -> 7
                  unit == CASE e.value = "m" -> 60000
                            [] e.value = "h" -> 60 * 60000
                            [] e.value = "d" -> 24 * 60 * 60000
              IN  loc'[c].expiresAt =
                      now + (IF e.amount > ceiling THEN ceiling ELSE e.amount) * unit]_vars
    /\ [](last.op = "create" => last.status # BAD_REQUEST)

\* a create of 61 minutes holds the deadline of 60 minutes
C16_Witness ==
    \E c \in Creators :
        /\ pc[c] = "insert"
        /\ loc[c].body.expiration = [amount |-> 61, value |-> "m"]
        /\ \E t \in {0, 60000, 120000} : loc[c].expiresAt = t + 3600000

\* C17: a sweep that the store performs leaves exactly the rows of secrets
\* with expiresAt >= now, so a second sweep at the same time finds nothing;
\* a sweep that finds nothing changes nothing and logs nothing
C17_SweepDeletesExpired ==
    [][(/\ last'.proc \in Sweepers
        /\ last'.message # "Error cleaning up expired secrets")
       => /\ secrets' = {row \in secrets : row.expiresAt >= now}
          /\ {row \in secrets' : row.expiresAt < now'} = {}
          /\ ({row \in secrets : row.expiresAt < now} = {})
             => (secrets' = secrets /\ last'.message = "")]_vars

\* a sweep deleted a record and left another, one that expires now included
C17_Witness ==
    /\ last.op = "sweep"
    /\ last.message = "Cleaned up"
    /\ \E row \in secrets : row.expiresAt = now

\* C18: a step of the sweeper leaves the table of requests as it is, and
\* every request of a state is a request of the next state (by its
\* adminShortId, with its receiverShortId and period): no step removes one
C18_RequestsOnlyGrow ==
    [][/\ last'.proc \in Sweepers => requests' = requests
       /\ \A row \in requests : \E after \in requests' :
              /\ after.adminShortId = row.adminShortId
              /\ after.receiverShortId = row.receiverShortId
              /\ after.period = row.period]_vars

\* the sweeper ran over an expired request and over a pending one
C18_Witness ==
    /\ last.op = "sweep"
    /\ \E row \in requests : ~IsNull(row.expiresAt) /\ Val(row.expiresAt) < now
    /\ \E row \in requests : IsNull(row.expiresAt)

\* C19: an admin read leaves the table of requests as it is; it answers
\* 404 exactly when no request has the adminShortId, and otherwise 200 with
\* the content of the request, the empty string if none was written,
\* whether the request is pending, active or expired
C19_AdminReadPure ==
    [][\A d \in Admins :
        last'.proc = d
        => LET rows == {row \in requests : row.adminShortId = last'.shortId}
           IN  /\ requests' = requests
               /\ rows = {} <=> last'.status = NOT_FOUND
               /\ rows # {}
                  => /\ last'.status = OK
                     /\ \E row \in rows :
                            last'.body =
                                Some([content |-> IF row.content = << >> THEN ""
                                                  ELSE row.content[1]])]_vars

\* an admin read answered the content of an expired request
C19_Witness ==
    /\ last.op = "adminRead"
    /\ last.status = OK
    /\ last.body = Some([content |-> "x"])
    /\ \E row \in requests : /\ row.adminShortId = last.shortId
                             /\ ~IsNull(row.expiresAt)
                             /\ now > Val(row.expiresAt)

\* C20: a receiver read that looked up a request with expiresAt set and
\* samples now > expiresAt answers 404 "Secret has expired" without content
\* and ends without a store write: the request stays as it is
C20_ExpiredReceiverRead ==
    [][\A v \in Receivers :
        (/\ Step(v, "readCheck")
         /\ ~IsNull(loc[v].request)
         /\ ~IsNull(Val(loc[v].request).expiresAt)
         /\ now > Val(Val(loc[v].request).expiresAt))
        => /\ last'.proc = v
           /\ last'.status = NOT_FOUND
           /\ last'.message = "Secret has expired"
           /\ IsNull(last'.body)
           /\ pc'[v] = "idle"
           /\ requests' = requests]_vars

C20_Witness ==
    /\ last.op = "receiverRead"
    /\ last.message = "Secret has expired"
    /\ \E row \in requests : /\ row.receiverShortId = last.shortId
                             /\ ~IsNull(row.expiresAt)
                             /\ now > Val(row.expiresAt)

\* C21: a validation error is answered by the first step of a handler,
\* before any store operation, and leaves both tables as they are; no
\* create with empty content or invalid expiration, no POST read with a
\* missing or empty password, no ask with period < 1 and no receiver write
\* with empty content gets past the validation to a store operation
C21_ValidationFirst ==
    [][/\ (last'.message = "validation" /\ last' # last)
          => /\ last'.status = BAD_REQUEST
             /\ pc[last'.proc] = "idle"
             /\ secrets' = secrets
             /\ requests' = requests
       /\ \A c \in Creators :
              (pc[c] = "idle" /\ pc'[c] # "idle")
              => /\ Len(loc'[c].body.content) >= 1
                 /\ loc'[c].body.expiration.amount >= 1
                 /\ loc'[c].body.expiration.value \in {"m", "h", "d"}
       /\ \A r \in Readers :
              (pc[r] = "idle" /\ pc'[r] # "idle" /\ loc'[r].op = "post")
              => loc'[r].password \notin {<< >>, <<"">>}
       /\ \A a \in Askers :
              (pc[a] = "idle" /\ pc'[a] # "idle") => loc'[a].period >= 1
       /\ \A v \in Receivers :
              (pc[v] = "idle" /\ pc'[v] = "writeCheck") => loc'[v].content # ""]_vars

\* a receiver write with empty content refused on a request open for writes
C21_Witness ==
    /\ last.op = "receiverWrite"
    /\ last.message = "validation"
    /\ \E row \in requests : /\ row.receiverShortId = last.shortId
                             /\ ~IsNull(row.expiresAt)
                             /\ now <= Val(row.expiresAt)
    /\ secrets # {}

\* C22: a read that looked up a record and samples now <= expiresAt ends
\* in its check step with the table of secrets as it is, whatever it
\* answers, and a content it answers is the content reassembled from the
\* fragments of the record, the same for every such read
C22_LiveReadsKeep ==
    [][\A r \in Readers :
        (/\ Step(r, "check")
         /\ ~IsNull(loc[r].secret)
         /\ now <= Val(loc[r].secret).expiresAt)
        => /\ secrets' = secrets
           /\ pc'[r] = "idle"
           /\ last'.proc = r
           /\ last'.status \in {OK, UNAUTHORIZED, BAD_REQUEST, FORBIDDEN}
           /\ last'.status = OK
              => last'.body =
                     Some([content |-> Reassembled[Val(loc[r].secret).fragments]])]_vars

\* a content answered, the record still stored and live
C22_Witness ==
    /\ last.op \in {"get", "post"}
    /\ last.status = OK
    /\ \E row \in SecretsWhere(last.shortId) :
           /\ now <= row.expiresAt
           /\ last.body = Some([content |-> Reassembled[row.fragments]])

\* C23: a successful create adds exactly one row to secrets and changes no
\* other: the row has the shortId the create answers, SHARE_COUNT fragments
\* and the deadline the handler computed from the expiration of the request
C23_CreateInsertsOne ==
    [][\A c \in Creators :
        (Step(c, "insert") /\ last'.status = OK)
        => /\ secrets \subseteq secrets'
           /\ Cardinality(secrets' \ secrets) = 1
           /\ \A row \in secrets' \ secrets :
                  /\ last'.body = Some([shortlink |-> row.shortId])
                  /\ Len(row.fragments) = SHARE_COUNT
                  /\ row.expiresAt = loc[c].expiresAt
                  /\ \E k \in 0..MaxTicks :
                         /\ k * 60000 <= now
                         /\ row.expiresAt =
                                (k + loc[c].body.expiration.amount) * 60000]_vars

\* a create answered beside a record of an earlier create
C23_Witness ==
    /\ last.op = "create"
    /\ last.status = OK
    /\ Cardinality(secrets) = 2
    /\ \E row \in secrets : last.body = Some([shortlink |-> row.shortId])

\* C24: a pending request stays pending until the update of a receiver
\* read; a receiver read that looked it up pending, at whatever time, does
\* not answer Expired: it goes on to the update with the deadline of its own
\* time plus the period (1 minute here), and the update stores that
\* deadline and answers 200
C24_PendingNeverExpires ==
    [][/\ \A row \in requests :
              IsNull(row.expiresAt)
              => \/ row \in requests'
                 \/ \E v \in Receivers : Step(v, "readUpdate")
       /\ \A v \in Receivers :
              /\ (/\ Step(v, "readCheck")
                  /\ ~IsNull(loc[v].request)
                  /\ IsNull(Val(loc[v].request).expiresAt))
                 => /\ pc'[v] = "readUpdate"
                    /\ last' = Silence
                    /\ loc'[v].expiresAt = now + Val(loc[v].request).period * 60000
              /\ Step(v, "readUpdate")
                 => /\ last'.proc = v
                    /\ last'.status = OK
                    /\ \A row \in requests' :
                           row.receiverShortId = loc[v].shortId
                           => row.expiresAt = Some(loc[v].expiresAt)]_vars

\* the request created at time 0 was opened two minutes later and expires
\* one minute after that
C24_Witness ==
    /\ now = 2 * 60000
    /\ last.op = "receiverRead"
    /\ last.status = OK
    /\ \E row \in requests : row.expiresAt = Some(3 * 60000)

\* C25: with sweeps that keep occurring, a record of secrets whose
\* expiresAt has passed is eventually no longer in the table, read or not
C25_ExpiredEventuallyGone ==
    \A id \in Ids : \A k \in 0..MaxTicks :
        (\E row \in secrets :
             /\ row.shortId = id
             /\ row.expiresAt = k * 60000
             /\ row.expiresAt < now)
        ~> ~(\E row \in secrets : row.shortId = id /\ row.expiresAt = k * 60000)

\* a sweep emptied the table while no read was in flight
C25_Witness ==
    /\ last.op = "sweep"
    /\ last.message = "Cleaned up"
    /\ secrets = {}
    /\ \A r \in Readers : pc[r] = "idle"

\* C26 (as claimed): a create whose insert finds its shortId taken goes
\* back to the allocation of an id; it does not end without its record
C26_LoserRetries ==
    [][\A c \in Creators :
        (Step(c, "insert") /\ SecretsWhere(loc[c].shortId) # {})
        => pc'[c] = "alloc"]_vars

\* C27 (as claimed): the delete of a read removes no record that is live at
\* the time of the delete
C27_DeleteOnlyExpired ==
    [][\A r \in Readers :
        Step(r, "del") => \A row \in secrets \ secrets' : now > row.expiresAt]_vars

\* C28: the delete of a read leaves no row under its shortId and answers
\* "Secret has expired", also when a sweep removed the row before it; a
\* sweep that the store performs leaves no expired row and is no error,
\* also when a read removed the row before it; so a row leaves the table in
\* one step of one of the two
C28_DeletesCommute ==
    [][/\ \A r \in Readers :
              Step(r, "del")
              => /\ {row \in secrets' : row.shortId = loc[r].shortId} = {}
                 /\ secrets' \subseteq secrets
                 /\ last'.proc = r
                 /\ last'.status = NOT_FOUND
                 /\ last'.message = "Secret has expired"
       /\ (/\ last'.proc \in Sweepers
           /\ last'.message # "Error cleaning up expired secrets")
          => /\ {row \in secrets' : row.expiresAt < now} = {}
             /\ secrets' \subseteq secrets
             /\ last'.message =
                    (IF secrets' = secrets THEN "" ELSE "Cleaned up")]_vars

\* a sweep has removed the record that a read in flight is about to delete
C28_Witness ==
    /\ last.op = "sweep"
    /\ last.message = "Cleaned up"
    /\ \E r \in Readers : pc[r] = "del" /\ SecretsWhere(loc[r].shortId) = {}

\* C29 (as claimed): no two requests share a receiverShortId and no two
\* share an adminShortId
C29_RequestIdsUnique ==
    \A x, y \in requests :
        (x.receiverShortId = y.receiverShortId \/ x.adminShortId = y.adminShortId)
        => x = y

\* C30 (as claimed): no adminShortId of a request is the receiverShortId of
\* a request, its own included
C30_AdminNotReceiver ==
    \A x, y \in requests : x.adminShortId # y.receiverShortId

\* C31: a read goes on to the delete only if it samples now > expiresAt; a
\* read that samples now = expiresAt of the record it looked up ends with
\* the answer of a live record (the content if no password stands in the
\* way); a receiver read at now = expiresAt answers the content and a
\* receiver write at now = expiresAt goes on to its update; a sweep leaves
\* every record with expiresAt = now in the table
C31_StrictBoundary ==
    [][/\ \A r \in Readers :
              /\ (Step(r, "check") /\ pc'[r] = "del")
                 => now > Val(loc[r].secret).expiresAt
              /\ (/\ Step(r, "check")
                  /\ ~IsNull(loc[r].secret)
                  /\ now = Val(loc[r].secret).expiresAt)
                 => /\ pc'[r] = "idle"
                    /\ last'.proc = r
                    /\ last'.message # "Secret has expired"
                    /\ (loc[r].op = "get" /\ IsNull(Val(loc[r].secret).hash))
                       => last'.status = OK /\ ~IsNull(last'.body)
                    /\ (/\ loc[r].op = "post"
                        /\ ~IsNull(Val(loc[r].secret).hash)
                        /\ Val(Val(loc[r].secret).hash)[3] = Val(loc[r].password))
                       => last'.status = OK /\ ~IsNull(last'.body)
       /\ \A v \in Receivers :
              /\ (/\ Step(v, "readCheck")
                  /\ ~IsNull(loc[v].request)
                  /\ Val(loc[v].request).expiresAt = Some(now))
                 => last'.proc = v /\ last'.status = OK /\ ~IsNull(last'.body)
              /\ (/\ Step(v, "writeCheck")
                  /\ ~IsNull(loc[v].request)
                  /\ Val(loc[v].request).expiresAt = Some(now))
                 => pc'[v] = "writeUpdate" /\ last' = Silence
              /\ (/\ (Step(v, "readCheck") \/ Step(v, "writeCheck"))
                  /\ last'.message \in {"Secret has expired", "Request has expired"})
                 => now > Val(Val(loc[v].request).expiresAt)
       /\ last'.proc \in Sweepers
          => \A row \in secrets : row.expiresAt = now => row \in secrets']_vars

\* a GET answered the content of a record at the very time of its deadline
C31_Witness ==
    /\ last.op = "get"
    /\ last.status = OK
    /\ \E row \in SecretsWhere(last.shortId) : row.expiresAt = now
    /\ \E row \in requests : row.expiresAt = Some(now)

\* C32: a sweep that the store rejects ends in the step that logs the
\* error: both tables stay as they are, every handler in flight stays at
\* its await, nothing but the log line is written, and the sweeper is where
\* the next tick of the schedule starts; with the schedule running, a
\* rejected sweep is followed by a sweep that the store performs
C32_SweepFailureContained ==
    /\ [][\A w \in Sweepers :
            (last'.proc = w /\ last' # last /\ last'.message \notin {"", "Cleaned up"})
            => /\ last'.message = "Error cleaning up expired secrets"
               /\ last'.status = 0
               /\ IsNull(last'.body)
               /\ secrets' = secrets
               /\ requests' = requests
               /\ pc' = pc
               /\ pc'[w] = "idle"
               /\ loc' = loc]_vars
    /\ \A w \in Sweepers :
           (last.proc = w /\ last.message = "Error cleaning up expired secrets")
           ~> (last.proc = w /\ last.message \in {"", "Cleaned up"})

\* a sweep failed over an expired record while a read was in flight
C32_Witness ==
    /\ last.op = "sweep"
    /\ last.message = "Error cleaning up expired secrets"
    /\ \E row \in secrets : row.expiresAt < now
    /\ \E r \in Readers : pc[r] = "check"

\* C33: no step changes a row of secrets in place: a row of a state is a
\* row of the next state with the same expiresAt, fragments and hash, or
\* the next state has no row of its shortId; a row that appears is the one
\* row an insert of a create adds, with the shortId, deadline, fragments
\* and hash the create holds; the table changes in no step but the insert
\* of a create, the delete of a read and a sweep
C33_RecordImmutable ==
    [][/\ \A row \in secrets :
              \/ row \in secrets'
              \/ {after \in secrets' : after.shortId = row.shortId} = {}
       /\ \A row \in secrets' \ secrets :
              \E c \in Creators :
                  /\ Step(c, "insert")
                  /\ secrets' = secrets \cup {row}
                  /\ row.shortId = loc[c].shortId
                  /\ row.expiresAt = loc[c].expiresAt
                  /\ row.fragments = loc[c].fragments
                  /\ row.hash = loc[c].hash
       /\ secrets' # secrets
          => \/ \E c \in Creators : Step(c, "insert")
             \/ \E r \in Readers : Step(r, "del")
             \/ last'.proc \in Sweepers]_vars

\* a POST answered the content of a record with password at its deadline,
\* with a request in the other table
C33_Witness ==
    /\ last.op = "post"
    /\ last.status = OK
    /\ requests # {}
    /\ \E row \in SecretsWhere(last.shortId) :
           /\ ~IsNull(row.hash)
           /\ Len(row.fragments) = SHARE_COUNT
           /\ row.expiresAt = now

\* C34 (as claimed): a request with content has expiresAt set; a step that
\* changes the content of a request is taken while the request is active
\* (expiresAt set and now <= expiresAt); the update of an activating
\* receiver read answers the empty content
C34_ContentOnlyWhileActive ==
    /\ [](\A row \in requests : ~IsNull(row.content) => ~IsNull(row.expiresAt))
    /\ [][\A row \in requests : \A after \in requests' :
            (after.adminShortId = row.adminShortId /\ after.content # row.content)
            => ~IsNull(row.expiresAt) /\ now <= Val(row.expiresAt)]_vars
    /\ [][\A v \in Receivers :
            Step(v, "readUpdate") => last'.body = Some([content |-> ""])]_vars

\* C35 (as claimed): a request that is expired (expiresAt set and
\* now > expiresAt) is expired after every step: no step sets its expiresAt
\* to null or to a deadline that has not passed; and a receiver read or
\* write that looked up an expired request answers Expired
C35_ExpiredIsTerminal ==
    [][/\ \A row \in requests :
              (~IsNull(row.expiresAt) /\ now > Val(row.expiresAt))
              => \A after \in requests' :
                     after.adminShortId = row.adminShortId
                     => ~IsNull(after.expiresAt) /\ now' > Val(after.expiresAt)
       /\ \A v \in Receivers :
              (/\ Step(v, "readCheck") \/ Step(v, "writeCheck")
               /\ ~IsNull(loc[v].request)
               /\ ~IsNull(Val(loc[v].request).expiresAt)
               /\ now > Val(Val(loc[v].request).expiresAt))
              => /\ last'.proc = v
                 /\ last'.status = NOT_FOUND
                 /\ last'.message \in {"Secret has expired", "Request has expired"}]_vars

\* C36: a read that looked up a record and samples now > expiresAt writes
\* no response in its check step, whatever the hash of the record and the
\* password of the request: it goes on to the delete; the delete leaves no
\* row under the shortId and answers "Secret has expired", never "Password
\* required", "Secret is not password protected" or "Incorrect password"
C36_ExpiryBeforePassword ==
    [][\A r \in Readers :
        /\ (/\ Step(r, "check")
            /\ ~IsNull(loc[r].secret)
            /\ now > Val(loc[r].secret).expiresAt)
           => /\ pc'[r] = "del"
              /\ last' = Silence
              /\ secrets' = secrets
        /\ Step(r, "del")
           => /\ last'.proc = r
              /\ last'.message = "Secret has expired"
              /\ last'.status \notin {UNAUTHORIZED, BAD_REQUEST, FORBIDDEN}
              /\ {row \in secrets' : row.shortId = loc[r].shortId} = {}]_vars

\* a read was answered "Secret has expired" while a POST with an incorrect
\* password holds the same expired record with its hash
C36_Witness ==
    /\ last.message = "Secret has expired"
    /\ \E r \in Readers :
           /\ last.proc # r
           /\ pc[r] = "check"
           /\ loc[r].shortId = last.shortId
           /\ loc[r].op = "post"
           /\ loc[r].password = Some("wrong")
           /\ ~IsNull(loc[r].secret)
           /\ ~IsNull(Val(loc[r].secret).hash)
           /\ now > Val(loc[r].secret).expiresAt

\* C37: a turn of the allocation loop leaves the loop only with an id that
\* no row of secrets has, and goes to the insert; while every id has a row
\* the create stays in the loop and writes no response; with every id
\* drawn again and again, a create that is in the loop while some id has no
\* row leaves the loop
C37_AllocTerminates ==
    /\ [][\A c \in Creators :
            /\ Step(c, "alloc")
               => /\ pc'[c] = "insert"
                  /\ {row \in secrets : row.shortId = loc'[c].shortId} = {}
            /\ (pc[c] = "alloc" /\ \A id \in Ids : SecretsWhere(id) # {})
               => pc'[c] = "alloc" /\ last'.proc # c]_vars
    /\ \A c \in Creators :
           (pc[c] = "alloc" /\ \E id \in Ids : SecretsWhere(id) = {})
           ~> (pc[c] # "alloc")

\* a create is in the loop and every id of the space has a row
C37_Witness ==
    /\ \E c \in Creators : pc[c] = "alloc"
    /\ \A id \in Ids : SecretsWhere(id) # {}

\* C38 (as claimed): the lookup of a receiver read or write on an id that
\* is the adminShortId of a request finds no request (so the handler
\* answers "Request not found" and writes nothing); an admin read on an id
\* that is the receiverShortId of a request answers 404; no response to a
\* receiver carries anything but the content
C38_CapabilitiesSeparated ==
    [][/\ \A v \in Receivers :
              /\ (/\ pc[v] = "idle"
                  /\ pc'[v] \in {"readCheck", "writeCheck"}
                  /\ \E row \in requests : row.adminShortId = loc'[v].shortId)
                 => IsNull(loc'[v].request)
              /\ (last'.proc = v /\ ~IsNull(last'.body))
                 => DOMAIN Val(last'.body) = {"content"}
       /\ \A d \in Admins :
              (/\ last'.proc = d
               /\ \E row \in requests : row.receiverShortId = last'.shortId)
              => last'.status = NOT_FOUND /\ requests' = requests]_vars

=============================================================================
